---------------------------- MODULE Spec2Model ----------------------------
(***************************************************************************)
(* A model of node_cleaner.py: the background scanner (directory walk,    *)
(* bounded pool of measurement workers, result queue, scan-state flag)    *)
(* and the curses main loop (drain, render, key handling, mark, confirmed *)
(* delete).                                                                *)
(*                                                                         *)
(* Paths are sequences of directory names below the scan root.  Strings   *)
(* that the program slices (error texts) are sequences of characters.     *)
(***************************************************************************)
EXTENDS Integers, Sequences, FiniteSets, TLC

\* ------------------------------------------------------------------ bounds

\* Largest number of node_modules directories a scanned tree may hold.
MaxTargets == 2

\* |selected| is capped here: PgUp/PgDn on a terminal of fewer than 5 rows
\* move the selection by a negative page, without limit.
SelBound == 2

\* ------------------------------------------------------- program constants

SCROLLOFF == 3

max_workers == 8

\* ------------------------------------------------------------- primitives

Min(a, b) == IF a < b THEN a ELSE b

Max(a, b) == IF a > b THEN a ELSE b

Range(s) == {s[i] : i \in 1..Len(s)}

Prefix(s, k) == SubSeq(s, 1, Min(k, Len(s)))

IsPrefix(p, s) == Len(p) <= Len(s) /\ SubSeq(s, 1, Len(p)) = p

\* ------------------------------------------------------- the file system

\* The scan root, and the directories that may exist below it.  The trees
\* scanned are the prefix-closed subsets of Universe.
Root == <<"root">>

Universe ==
    { <<"node_modules">>,
      <<"a">>, <<"a", "node_modules">>,
      <<"a", "node_modules", "x">>, <<"a", "node_modules", "x", "node_modules">>,
      <<"b">>, <<"b", "c">>, <<"b", "c", "node_modules">> }

\* The order in which a directory's children are listed.
NameOrder == <<"a", "b", "c", "x", "node_modules">>

PrefixClosed(t) ==
    \A d \in t : Len(d) > 1 => SubSeq(d, 1, Len(d) - 1) \in t

\* What `du -sk` reports for a directory when it succeeds, in KiB.
du_kb(abs_path) ==
    CASE abs_path = Root \o <<"node_modules">> -> 100
      [] abs_path = Root \o <<"a", "node_modules">> -> 2048
      [] abs_path = Root \o <<"b", "c", "node_modules">> -> 3145728
      [] OTHER -> 1280

\* os.walk(root, topdown=True) with the loop body of find_node_modules:
\* a directory holding a node_modules child records it and removes it from
\* dirnames, so the walk does not descend into it.
RECURSIVE WalkDirs(_, _, _)
RECURSIVE WalkDir(_, _)
\* The loop body without line 114: node_modules stays in dirnames.
WalkDirDescending(tree, dirpath) ==
    LET dirnames == {d[Len(d)] : d \in {c \in tree : Len(c) = Len(dirpath) + 1
                                                      /\ IsPrefix(dirpath, c)}}
        found == IF "node_modules" \in dirnames
                   THEN <<Root \o dirpath \o <<"node_modules">>>>
                   ELSE <<>>
    IN  found \o WalkDirs(tree, dirpath, SelectSeq(NameOrder, LAMBDA nm : nm \in dirnames))

WalkDir(tree, dirpath) ==
    LET dirnames == {d[Len(d)] : d \in {c \in tree : Len(c) = Len(dirpath) + 1
                                                      /\ IsPrefix(dirpath, c)}}
        found == IF "node_modules" \in dirnames
                   THEN <<Root \o dirpath \o <<"node_modules">>>>
                   ELSE <<>>
        rest == dirnames \ {"node_modules"}
    IN  found \o WalkDirs(tree, dirpath, SelectSeq(NameOrder, LAMBDA nm : nm \in rest))

WalkDirs(tree, dirpath, names) ==
    IF names = <<>> THEN <<>>
    ELSE WalkDir(tree, dirpath \o <<Head(names)>>)
           \o WalkDirs(tree, dirpath, Tail(names))

os_walk(tree) == WalkDir(tree, <<>>)

Trees ==
    {t \in SUBSET Universe : PrefixClosed(t) /\ Len(os_walk(t)) <= MaxTargets}

\* The directories whose listing may fail (no permission): os.walk reports
\* the error to onerror, which ignores it, and goes on without their
\* children.
Unlistable == {<<"a">>, <<"b">>}

\* What os.walk sees of a tree when the listing of the directories in
\* denied fails: they are listed by their parent, their children are not.
Listable(tree, denied) ==
    {c \in tree : \A d \in denied : ~(IsPrefix(d, c) /\ c # d)}

\* No tree is being walked.
NoTree == [tree |-> {}, denied |-> {}]

\* os.path.relpath(abs_path, root): the directory itself, not its parent.
rel_path_of_target(abs_path) ==
    SubSeq(abs_path, Len(Root) + 1, Len(abs_path))

\* os.path.relpath(os.path.dirname(abs_path), root)
rel_path_of(abs_path) ==
    LET parent_abs == SubSeq(abs_path, 1, Len(abs_path) - 1)
        rel == SubSeq(parent_abs, Len(Root) + 1, Len(parent_abs))
    IN  IF rel = <<>> THEN <<".">> ELSE rel

\* ------------------------------------------------------------ format_size

\* x / threshold printed with "%.1f": tenths of the unit, ties to even
\* (the quotient by a power of two is exact in binary floating point).
RoundTenths(num, den) ==
    LET q == (num * 10) \div den
        r2 == 2 * ((num * 10) % den)
    IN  IF r2 > den \/ (r2 = den /\ q % 2 = 1) THEN q + 1 ELSE q

\* Units listed smallest first.
UnitsAscending == << [unit |-> "KB", kb |-> 1],
                     [unit |-> "MB", kb |-> 1024],
                     [unit |-> "GB", kb |-> 1048576] >>

\* The units of format_size, as thresholds on size_kb: size_b = size_kb * 1024
\* meets 1 << 30, 1 << 20, 1 << 10 exactly when size_kb meets these.
Units == << [unit |-> "GB", kb |-> 1048576],
            [unit |-> "MB", kb |-> 1024],
            [unit |-> "KB", kb |-> 1] >>

RECURSIVE FirstUnit(_, _)
FirstUnit(size_kb, i) ==
    IF i > Len(Units) THEN [unit |-> "B", tenths |-> size_kb * 10240]
    ELSE IF size_kb >= Units[i].kb
           THEN [unit |-> Units[i].unit, tenths |-> RoundTenths(size_kb, Units[i].kb)]
           ELSE FirstUnit(size_kb, i + 1)

\* A label is a unit and the number before it in tenths; "0 B" is
\* [unit |-> "B", tenths |-> 0].
format_size(size_kb) ==
    IF size_kb = 0 THEN [unit |-> "B", tenths |-> 0]
    ELSE FirstUnit(size_kb, 1)

\* The label written on a deleted entry (an em dash).
Dash == [unit |-> "-", tenths |-> 0]

\* ------------------------------------------------------------- data model

\* Python strings that the program slices, as sequences of characters.
AlreadyGone == <<"A", "l", "r", "e", "a", "d", "y", " ", "g", "o", "n", "e">>

\* A status is its fixed text and, after "Err: ", the excerpt of the error.
Status(label) == [label |-> label, excerpt |-> <<>>]

ErrStatus(error) == [label |-> "Err: ", excerpt |-> Prefix(error, 8)]

\* NodeModulesEntry(abs_path, rel_path, size_kb) with __post_init__.
NodeModulesEntry(abs_path, rel_path, size_kb) ==
    [abs_path |-> abs_path,
     rel_path |-> rel_path,
     size_kb |-> size_kb,
     size_human |-> format_size(size_kb),
     status |-> Status("Active"),
     deleted |-> FALSE,
     marked |-> FALSE]

\* The directories whose `du -sk` may fail or run into the 30 s timeout
\* (the environment's choice; the others are always measured).
Flaky == {Root \o <<"b", "c", "node_modules">>}

\* measure_size without the timeout: a du that hangs never returns.
measure_size_no_timeout(abs_path) ==
    IF abs_path \in Flaky THEN {} ELSE {du_kb(abs_path)}

\* measure_size: the number `du -sk` printed, or 0 when it failed or timed
\* out.
measure_size(abs_path) ==
    {du_kb(abs_path)} \cup (IF abs_path \in Flaky THEN {0} ELSE {})

\* Optional[str]: None, or a string.
None == [none |-> TRUE, str |-> <<>>]

Str(chars) == [none |-> FALSE, str |-> chars]

\* Python's truth value of an Optional[str].
Truthy(v) == ~v.none /\ Len(v.str) > 0

\* _on_rm_error: chmod, then retry the failed call.  Whatever the chmod or
\* the retry raises is swallowed: the callback never raises.
on_rm_error_raises == FALSE

\* shutil.rmtree(path, onerror=_on_rm_error): `removable` says whether every
\* entry can be removed, at the latest by its retry.  rmtree hands every
\* failure to onerror and raises only what onerror raises.
rmtree(removable) ==
    [gone |-> removable, raised |-> ~removable /\ on_rm_error_raises]

\* str(exc) of an exception rmtree raised.
ExcText == <<"[", "E", "r", "r", "n", "o", " ", "1", "3", "]">>

\* delete_entry: the returned Optional[str], and whether the directory is
\* on disk afterwards.
delete_entry(exists, removable) ==
    IF ~exists THEN [error |-> Str(AlreadyGone), on_disk |-> FALSE]
    ELSE LET r == rmtree(removable)
         IN  IF r.raised
               THEN [error |-> Str(ExcText), on_disk |-> TRUE]
               ELSE [error |-> None, on_disk |-> ~r.gone]

\* ------------------------------------------------------------ handle_input

\* The keys and confirmation keys pressed: one or two of each kind that
\* handle_input and the dialog tell apart.
Keys == {"KEY_UP", "j", "KEY_PPAGE", "KEY_NPAGE", "g", "G", "q", "D", " ", "d"}

ConfirmKeys == {"Y", "y", "n", " "}

\* The scroll-off adjustment at the end of handle_input.
Scrolloff(selected, scroll, table_rows) ==
    LET so == Min(SCROLLOFF, table_rows \div 2)
        s1 == IF selected - scroll < so THEN Max(0, selected - so) ELSE scroll
        s2 == IF selected >= s1 + table_rows - so
                THEN selected - table_rows + so + 1 ELSE s1
    IN  Max(0, s2)

MoveSelection(key, selected, n, table_rows) ==
    CASE key \in {"KEY_UP", "k"} -> Max(0, selected - 1)
      [] key \in {"KEY_DOWN", "j"} -> Min(Max(0, n - 1), selected + 1)
      [] key = "KEY_PPAGE" -> Max(0, selected - table_rows)
      [] key = "KEY_NPAGE" -> Min(Max(0, n - 1), selected + table_rows)
      [] key = "g" -> 0
      [] key = "G" -> Max(0, n - 1)
      [] OTHER -> selected

handle_input(key, selected, scroll, n, height) ==
    LET table_rows == height - 5
        sel == MoveSelection(key, selected, n, table_rows)
    IN  [selected |-> sel,
         scroll |-> Scrolloff(sel, scroll, table_rows),
         quit_flag |-> key \in {"Q", "q", "Esc"},
         delete_flag |-> key = "D",
         mark_flag |-> key = " "]

\* -------------------------------------------------------------- main_loop

\* entries[selected] as Python reads it: 0-based, a negative index counts
\* from the end, anything else raises IndexError (0 here).
PyIndex(selected, n) ==
    IF selected >= 0 /\ selected < n THEN selected + 1
    ELSE IF selected < 0 /\ selected >= -n THEN n + selected + 1
    ELSE 0

\* The clamp before draw_table.
ClampSelected(selected, n) == Min(selected, Max(0, n - 1))

ClampScroll(scroll, n, table_rows) == Min(scroll, Max(0, n - table_rows))

\* ToggleMark without the deleted check.
ToggleMarkAlways(entry) == [entry EXCEPT !.marked = ~entry.marked]

\* The mark branch on entries[i]: toggle unless deleted.
ToggleMark(entry) ==
    IF ~entry.deleted THEN [entry EXCEPT !.marked = ~entry.marked] ELSE entry

\* The cursor advance after marking.
AdvanceAfterMark(selected, scroll, n, table_rows) ==
    IF selected < n - 1
      THEN LET sel == selected + 1
               so == Min(SCROLLOFF, table_rows \div 2)
               sc == IF sel >= scroll + table_rows - so
                       THEN sel - table_rows + so + 1 ELSE scroll
           IN  [selected |-> sel, scroll |-> Max(0, sc)]
      ELSE [selected |-> selected, scroll |-> scroll]

\* The indexes (1-based) of the marked, not deleted entries, in list order.
MarkedTargets(es) ==
    SelectSeq([i \in 1..Len(es) |-> i], LAMBDA i : es[i].marked /\ ~es[i].deleted)

\* The fallback to the current row without its deleted check.
ComputeTargetsAnyCur(es, cur) ==
    IF MarkedTargets(es) # <<>> THEN MarkedTargets(es) ELSE <<cur>>

\* The delete branch's target list; cur is the index of entries[selected].
ComputeTargets(es, cur) ==
    IF MarkedTargets(es) # <<>> THEN MarkedTargets(es)
    ELSE IF ~es[cur].deleted THEN <<cur>> ELSE <<>>

\* Affirmative, cancelling on n only.
AffirmativeUnlessN(key) == key # "n"

Affirmative(key) == key \in {"Y", "y"}

\* The first loop of a confirmed delete, over the targets.
MarkDeleting(es, targets) ==
    [i \in 1..Len(es) |->
        IF i \in Range(targets)
          THEN [es[i] EXCEPT !.status = Status("Deleting..."), !.marked = FALSE]
          ELSE es[i]]

\* The body of the second loop without its error branch.
ApplyDeleteResultSilent(entry, error) ==
    IF Truthy(error)
      THEN entry
      ELSE [entry EXCEPT !.deleted = TRUE,
                         !.status = Status("Deleted"),
                         !.size_kb = 0,
                         !.size_human = Dash]

\* The body of the second loop: the entry after delete_entry returned error.
ApplyDeleteResult(entry, error) ==
    IF Truthy(error)
      THEN [entry EXCEPT !.status = ErrStatus(error.str)]
      ELSE [entry EXCEPT !.deleted = TRUE,
                         !.status = Status("Deleted"),
                         !.size_kb = 0,
                         !.size_human = Dash]

RECURSIVE SumKb(_)
SumKb(es) == IF es = <<>> THEN 0 ELSE Head(es).size_kb + SumKb(Tail(es))

\* draw_footer: what the summary line is computed from.
draw_footer(es, state) ==
    LET active == SelectSeq(es, LAMBDA e : ~e.deleted)
    IN  [total_str |-> format_size(SumKb(active)),
         n_total |-> Len(es),
         n_active |-> Len(active),
         n_marked |-> Len(SelectSeq(es, LAMBDA e : e.marked /\ ~e.deleted)),
         scanning |-> state = "SCANNING"]

\* ------------------------------------------------------------------ state

\* Terminal heights stdscr.getmaxyx() may report (table_rows = height - 5).
Heights == {4, 7}

VARIABLES
    spc,            \* find_node_modules: "walk", "pool", "sentinel", "finished"
    paths,          \* the walk's list of node_modules directories
    task,           \* per path, its future: "queued", "running", "done"
    result_queue,   \* queue.Queue of entries and the None sentinel
    scan_state,     \* state[0]
    disk,           \* the target directories that exist on disk
    pc,             \* main_loop: "drain", "render", "input", "confirm",
                    \* "deleting", "quit", "crashed"
    entries,
    selected,
    scroll,
    h,              \* the height read for this cycle; 0 between cycles, for
                    \* every cycle reads it anew before using it
    targets,        \* the delete batch, as indexes into entries
    ti,             \* position of the second delete loop in targets
    confirm_key,    \* the key read by the dialog; "" from the next drain on,
                    \* for it is not read again before the next dialog
    shown,          \* scan_state as the last draw_footer read it
    fs              \* the tree below the root as the walk met it and the
                    \* directories it could not list; NoTree before the walk
                    \* and once paths is complete, for the tree is not read
                    \* again (du and rmtree meet the disk of their own time)

vars == <<spc, paths, task, result_queue, scan_state, disk,
          pc, entries, selected, scroll, h, targets, ti, confirm_key, shown,
          fs>>

scanner_vars == <<spc, paths, task, result_queue, scan_state, fs>>

ui_vars == <<pc, entries, selected, scroll, h, targets, ti, confirm_key, shown>>

Init ==
    /\ spc = "walk"
    /\ paths = <<>>
    /\ task = <<>>
    /\ result_queue = <<>>
    /\ scan_state = "SCANNING"
    /\ disk = {}
    /\ pc = "drain"
    /\ entries = <<>>
    /\ selected = 0
    /\ scroll = 0
    /\ h = 0
    /\ targets = <<>>
    /\ ti = 0
    /\ confirm_key = ""
    /\ shown = "SCANNING"
    /\ fs = NoTree

\* The process runs until main_loop returns or raises; the scanner thread is
\* a daemon and ends with it.
Running == pc \notin {"quit", "crashed"}

\* ---------------------------------------------------------------- scanner

\* Lines 108-114, on one of the trees.
Walk ==
    /\ Running /\ spc = "walk"
    /\ \E tree \in Trees, denied \in SUBSET Unlistable :
          /\ paths' = os_walk(Listable(tree, denied))
          /\ disk' = Range(os_walk(Listable(tree, denied)))
          /\ fs' = [tree |-> tree, denied |-> denied]
    /\ spc' = "submit"
    /\ UNCHANGED <<task, result_queue, scan_state>>
    /\ UNCHANGED ui_vars

\* Line 129: one future for each path.
Submit ==
    /\ Running /\ spc = "submit"
    /\ task' = [i \in 1..Len(paths) |-> "queued"]
    /\ fs' = NoTree
    /\ spc' = "pool"
    /\ UNCHANGED <<paths, result_queue, scan_state, disk>>
    /\ UNCHANGED ui_vars

\* A free worker of the pool takes the oldest queued future.
StartMeasure(i) ==
    /\ Running /\ spc = "pool"
    /\ task[i] = "queued"
    /\ \A j \in 1..(i - 1) : task[j] # "queued"
    /\ Cardinality({j \in 1..Len(task) : task[j] = "running"}) < max_workers
    /\ task' = [task EXCEPT ![i] = "running"]
    /\ UNCHANGED <<spc, paths, result_queue, scan_state, disk, fs>>
    /\ UNCHANGED ui_vars

\* Enqueue that drops the entry of a failed measurement.
EnqueueUnlessFailed(q, abs_path, size_kb) ==
    IF size_kb = 0 THEN q
    ELSE Append(q, [is_none |-> FALSE,
                    entry |-> NodeModulesEntry(abs_path, rel_path_of(abs_path), size_kb)])

\* What measure_and_enqueue puts on the queue.
Enqueue(q, abs_path, size_kb) ==
    Append(q, [is_none |-> FALSE,
               entry |-> NodeModulesEntry(abs_path, rel_path_of(abs_path), size_kb)])

\* measure_and_enqueue returns: the size is measured and the entry is put.
FinishMeasure(i) ==
    /\ Running /\ spc = "pool"
    /\ task[i] = "running"
    /\ \E size_kb \in measure_size(paths[i]) :
          result_queue' = Enqueue(result_queue, paths[i], size_kb)
    /\ task' = [task EXCEPT ![i] = "done"]
    /\ UNCHANGED <<spc, paths, scan_state, disk, fs>>
    /\ UNCHANGED ui_vars

\* FuturesDone that waits only for the futures to have started.
FuturesStarted == \A i \in 1..Len(task) : task[i] # "queued"

\* Every f.result() has returned and the executor has shut down.
FuturesDone == \A i \in 1..Len(task) : task[i] = "done"

\* Line 133.
SetDone ==
    /\ Running /\ spc = "pool"
    /\ FuturesDone
    /\ scan_state' = "DONE"
    /\ spc' = "sentinel"
    /\ UNCHANGED <<paths, task, result_queue, disk, fs>>
    /\ UNCHANGED ui_vars

\* Line 134.
PutSentinel ==
    /\ Running /\ spc = "sentinel"
    /\ result_queue' = Append(result_queue, [is_none |-> TRUE])
    /\ spc' = "finished"
    /\ UNCHANGED <<paths, task, scan_state, disk, fs>>
    /\ UNCHANGED ui_vars

\* -------------------------------------------------------------- main loop

\* The body of the drain loop with insert(0, item) for append(item).
IngestFront(es, item) == IF item.is_none THEN es ELSE <<item.entry>> \o es

\* The body of the drain loop, lines 404-407: the sentinel is passed over,
\* an entry is appended.
Ingest(es, item) == IF item.is_none THEN es ELSE Append(es, item.entry)

\* One result_queue.get_nowait() that returns an item.
DrainOne ==
    /\ pc = "drain"
    /\ result_queue # <<>>
    /\ result_queue' = Tail(result_queue)
    /\ entries' = Ingest(entries, Head(result_queue))
    /\ confirm_key' = ""
    /\ UNCHANGED <<spc, paths, task, scan_state, disk, fs>>
    /\ UNCHANGED <<pc, selected, scroll, h, targets, ti, shown>>

\* get_nowait() raises queue.Empty.
DrainEmpty ==
    /\ pc = "drain"
    /\ result_queue = <<>>
    /\ pc' = "render"
    /\ confirm_key' = ""
    /\ UNCHANGED <<scanner_vars, disk>>
    /\ UNCHANGED <<entries, selected, scroll, h, targets, ti, shown>>

\* Lines 411-427: read the size, clamp, draw the table and the footer.
Render ==
    /\ pc = "render"
    /\ \E height \in Heights :
          /\ h' = height
          /\ selected' = IF entries = <<>> THEN selected
                         ELSE ClampSelected(selected, Len(entries))
          /\ scroll' = IF entries = <<>> THEN scroll
                       ELSE ClampScroll(scroll, Len(entries), height - 5)
    /\ shown' = scan_state
    /\ pc' = "input"
    /\ UNCHANGED <<scanner_vars, disk>>
    /\ UNCHANGED <<entries, targets, ti, confirm_key>>

\* getch() times out (-1): next cycle.
NoKey ==
    /\ pc = "input"
    /\ pc' = "drain"
    /\ h' = 0
    /\ UNCHANGED <<scanner_vars, disk>>
    /\ UNCHANGED <<entries, selected, scroll, targets, ti, confirm_key, shown>>

\* Lines 438-466 for one key.
KeyStep(key) ==
    /\ pc = "input"
    /\ LET n == Len(entries)
           r == handle_input(key, selected, scroll, n, h)
           cur == PyIndex(r.selected, n)
       IN
       /\ r.selected \in (-SelBound)..SelBound
       /\ IF r.quit_flag THEN
             /\ pc' = "quit" /\ h' = 0
             /\ selected' = r.selected /\ scroll' = r.scroll
             /\ UNCHANGED <<entries, targets>>
          ELSE IF r.mark_flag /\ n > 0 THEN
             IF cur = 0 THEN
                /\ pc' = "crashed" /\ h' = 0
                /\ selected' = r.selected /\ scroll' = r.scroll
                /\ UNCHANGED <<entries, targets>>
             ELSE
                /\ entries' = [entries EXCEPT ![cur] = ToggleMark(@)]
                /\ selected' = AdvanceAfterMark(r.selected, r.scroll, n, h - 5).selected
                /\ scroll' = AdvanceAfterMark(r.selected, r.scroll, n, h - 5).scroll
                /\ pc' = "drain" /\ h' = 0
                /\ UNCHANGED targets
          ELSE IF r.delete_flag /\ n > 0 THEN
             IF MarkedTargets(entries) = <<>> /\ cur = 0 THEN
                /\ pc' = "crashed" /\ h' = 0
                /\ selected' = r.selected /\ scroll' = r.scroll
                /\ UNCHANGED <<entries, targets>>
             ELSE
                /\ selected' = r.selected /\ scroll' = r.scroll
                /\ targets' = ComputeTargets(entries, cur)
                /\ IF ComputeTargets(entries, cur) = <<>>
                     THEN pc' = "drain" /\ h' = 0
                     ELSE pc' = "confirm" /\ h' = h
                /\ UNCHANGED entries
          ELSE
             /\ selected' = r.selected /\ scroll' = r.scroll
             /\ pc' = "drain" /\ h' = 0
             /\ UNCHANGED <<entries, targets>>
    /\ UNCHANGED <<scanner_vars, disk>>
    /\ UNCHANGED <<ti, confirm_key, shown>>

\* Lines 473-487: the confirmation key, and on Y/y the first loop and the
\* re-render.
Confirm(key) ==
    /\ pc = "confirm"
    /\ confirm_key' = key
    /\ IF Affirmative(key) THEN
          /\ entries' = MarkDeleting(entries, targets)
          /\ shown' = scan_state
          /\ pc' = "deleting"
          /\ ti' = 1
          /\ UNCHANGED <<h, targets>>
       ELSE
          /\ pc' = "drain" /\ h' = 0
          /\ targets' = <<>>
          /\ UNCHANGED <<entries, ti, shown>>
    /\ UNCHANGED <<scanner_vars, disk>>
    /\ UNCHANGED <<selected, scroll>>

\* The directories another process may remove while the program runs, and
\* those holding an entry that cannot be removed even after chmod.
Racy == {Root \o <<"node_modules">>}

Sticky == {Root \o <<"a", "node_modules">>}

\* What can happen to a directory that delete_entry is called on: another
\* process removed it before the os.path.exists check ("gone"), rmtree
\* removes it ("removed"), or some entry of it cannot be removed even after
\* the chmod and retry ("stuck").
Outcomes(abs_path, on_disk) ==
    IF ~on_disk THEN {"gone"}
    ELSE {"removed"} \cup (IF abs_path \in Racy THEN {"gone"} ELSE {})
                     \cup (IF abs_path \in Sticky THEN {"stuck"} ELSE {})

\* Lines 489-497 for the next target of the batch.
DeleteStep ==
    /\ pc = "deleting"
    /\ LET i == targets[ti]
           abs_path == entries[i].abs_path
       IN  \E outcome \in Outcomes(abs_path, abs_path \in disk) :
              LET r == delete_entry(outcome # "gone", outcome = "removed")
              IN  /\ entries' = [entries EXCEPT ![i] = ApplyDeleteResult(@, r.error)]
                  /\ disk' = IF r.on_disk THEN disk ELSE disk \ {abs_path}
    /\ IF ti = Len(targets)
         THEN pc' = "drain" /\ h' = 0 /\ targets' = <<>> /\ ti' = 0
         ELSE pc' = "deleting" /\ h' = h /\ targets' = targets /\ ti' = ti + 1
    /\ UNCHANGED scanner_vars
    /\ UNCHANGED <<selected, scroll, confirm_key, shown>>

\* ---------------------------------------------------------- specification

ScannerNext ==
    \/ Walk
    \/ Submit
    \/ \E i \in 1..Len(task) : StartMeasure(i)
    \/ \E i \in 1..Len(task) : FinishMeasure(i)
    \/ SetDone
    \/ PutSentinel

Next ==
    \/ ScannerNext
    \/ DrainOne
    \/ DrainEmpty
    \/ Render
    \/ NoKey
    \/ \E key \in Keys : KeyStep(key)
    \/ \E key \in ConfirmKeys : Confirm(key)
    \/ DeleteStep

Spec == Init /\ [][Next]_vars

\* The scan beside a main loop that only polls and may quit: the scanner
\* reads nothing of the main loop but whether the program still runs.
ScanNext ==
    \/ ScannerNext
    \/ DrainOne
    \/ DrainEmpty
    \/ Render
    \/ NoKey
    \/ KeyStep("q")

\* The scanner thread and the pool's workers are scheduled fairly.
ScanSpec == Init /\ [][ScanNext]_vars /\ WF_vars(ScannerNext)

\* ------------------------------------------------------------ properties

Yes == {"Y", "y"}

\* The table has just been drawn from selected, scroll, h and entries: by
\* Render, or by the re-render of a confirmed delete.
TableDrawn ==
    \/ pc = "input" /\ entries # <<>>
    \/ pc = "deleting" /\ ti = 1

Indexes == 1..Len(entries)

\* C1: delete_entry runs only in a cycle whose D key gave a non-empty target
\* list and whose confirmation key was Y or y; after any other confirmation
\* key the entries (every field), the list, the selection and the disk are
\* as they were when the dialog was shown, and no delete follows.
C1_DeleteOnlyOnYes ==
    [][ /\ (pc' = "deleting" => confirm_key' \in Yes /\ targets' # <<>>)
        /\ (pc = "confirm" /\ pc' # "confirm" /\ confirm_key' \notin Yes
              => /\ entries' = entries
                 /\ selected' = selected
                 /\ disk' = disk
                 /\ pc' = "drain")
        /\ (disk' # disk /\ spc # "walk"
              => pc = "deleting" /\ confirm_key \in Yes /\ targets # <<>>)
      ]_vars

\* C1 witness: a dialog over a marked entry has just been cancelled.
C1_Witness ==
    /\ pc = "drain"
    /\ confirm_key \in ConfirmKeys \ Yes
    /\ \E i \in Indexes : entries[i].marked

\* The target list the delete key is specified to give: the marked, not
\* deleted entries, else the entry at the selected index, else nothing.
ClaimedTargets ==
    IF MarkedTargets(entries) # <<>> THEN MarkedTargets(entries)
    ELSE IF selected \in 0..(Len(entries) - 1) /\ ~entries[selected + 1].deleted
           THEN <<selected + 1>>
           ELSE <<>>

\* A step leaves every entry outside the targets as it is.
OthersUntouched ==
    \A i \in Indexes : i \notin Range(targets) => entries'[i] = entries[i]

\* C2: the targets of a delete are the marked, not deleted entries if there
\* are any, otherwise the entry at the selected index if it is not deleted,
\* otherwise none (and then no dialog); the delete workflow never ends the
\* program, and changes no entry outside the targets.
C2_TargetSet ==
    /\ [](pc \in {"confirm", "deleting"} => targets = ClaimedTargets /\ targets # <<>>)
    /\ [](pc # "crashed")
    /\ [][(pc \in {"confirm", "deleting"}) => OthersUntouched]_vars

\* C3: wherever the table is drawn, the selection is in [0, max(0, n-1)] and
\* the scroll offset is in [0, max(0, n - table_rows)].
C3_CursorInRange ==
    TableDrawn =>
        /\ selected \in 0..Max(0, Len(entries) - 1)
        /\ scroll >= 0
        /\ scroll <= Max(0, Len(entries) - (h - 5))

\* C4: an entry is deleted only if its directory was removed; an entry whose
\* removal failed is not deleted and shows "Err: " with at most 8 characters.
C4_DeletedOnlyIfRemoved ==
    \A i \in Indexes :
        /\ entries[i].deleted => entries[i].abs_path \notin disk
        /\ entries[i].status.label = "Err: " =>
              ~entries[i].deleted /\ Len(entries[i].status.excerpt) <= 8

\* C5: an entry whose directory had vanished when it was deleted does not
\* end the batch with an "Err: " status.
C5_VanishedIsBenign ==
    \A i \in Indexes :
        entries[i].status.label = "Err: " => entries[i].abs_path \in disk

\* C6: a deleted entry is never marked and has size_kb = 0.
C6_DeletedUnmarkedZero ==
    \A i \in Indexes :
        entries[i].deleted => ~entries[i].marked /\ entries[i].size_kb = 0

\* C6 witness: one entry is deleted while another one is marked.
C6_Witness ==
    \E i, j \in Indexes : entries[i].deleted /\ entries[j].marked

\* The unit the label of a non-zero size is specified to carry: the largest
\* of GB, MB, KB whose threshold size_kb * 1024 meets (thresholds in KiB).
ClaimedUnit(size_kb) ==
    IF size_kb >= 1048576 THEN "GB"
    ELSE IF size_kb >= 1024 THEN "MB"
    ELSE "KB"

LabelFits(e) ==
    IF e.size_kb = 0 THEN e.size_human = [unit |-> "B", tenths |-> 0]
    ELSE e.size_human.unit = ClaimedUnit(e.size_kb)

\* Every entry the program holds: in the list, or still on the queue.
Queued == {result_queue[i].entry : i \in {j \in 1..Len(result_queue) :
                                             ~result_queue[j].is_none}}

AllEntries == Range(entries) \cup Queued

EmittedPaths == {e.abs_path : e \in AllEntries}

EmittedCount ==
    Len(entries) + Cardinality({j \in 1..Len(result_queue) : ~result_queue[j].is_none})

SentinelQueued == \E j \in 1..Len(result_queue) : result_queue[j].is_none

\* C8: scan_state never goes back from DONE; it is DONE only once the walk
\* has finished and every future has returned and put its entry; the
\* sentinel is put once, after that, and nothing is put after the sentinel.
C8_DoneAfterAllPut ==
    /\ [][scan_state = "DONE" => scan_state' = "DONE"]_vars
    /\ [](scan_state = "DONE" =>
            /\ spc \in {"sentinel", "finished"}
            /\ \A i \in 1..Len(task) : task[i] = "done"
            /\ EmittedCount = Len(paths))
    /\ [](\A j \in 1..Len(result_queue) :
            result_queue[j].is_none => j = Len(result_queue) /\ scan_state = "DONE")
    /\ [](SentinelQueued => spc = "finished")
    /\ [][spc = "finished" =>
            /\ spc' = "finished"
            /\ \/ result_queue' = result_queue
               \/ result_queue # <<>> /\ result_queue' = Tail(result_queue)]_vars

\* C8 witness: the scan of a tree with two targets is over.
C8_Witness ==
    /\ scan_state = "DONE" /\ spc = "finished"
    /\ Len(paths) >= 2

\* C9: one entry is put per discovered directory, measured or not: no two
\* entries share an abs_path, every entry is of a discovered directory and
\* starts Active with the measured size or 0, there are as many entries as
\* futures that returned, and once scan_state is DONE and the queue is
\* drained the list holds exactly one entry per discovered directory.
C9_OneEntryPerTarget ==
    /\ \A i, j \in Indexes : entries[i].abs_path = entries[j].abs_path => i = j
    /\ \A i, j \in 1..Len(result_queue) :
          ~result_queue[i].is_none /\ ~result_queue[j].is_none
          /\ result_queue[i].entry.abs_path = result_queue[j].entry.abs_path => i = j
    /\ \A e \in Queued :
          /\ e.abs_path \notin {entries[i].abs_path : i \in Indexes}
          /\ e.status = Status("Active") /\ ~e.deleted /\ ~e.marked
          /\ e.size_kb \in {0, du_kb(e.abs_path)}
    /\ EmittedPaths \subseteq Range(paths)
    /\ EmittedCount = Cardinality({i \in 1..Len(task) : task[i] = "done"})
    /\ scan_state = "DONE" /\ result_queue = <<>> =>
          /\ {entries[i].abs_path : i \in Indexes} = Range(paths)
          /\ Len(entries) = Len(paths)

\* C9 witness: the scan is over and drained, with two entries in the list,
\* one of them from a failed measurement.
C9_Witness ==
    /\ scan_state = "DONE" /\ result_queue = <<>>
    /\ Len(entries) = 2
    /\ \E i \in Indexes : entries[i].size_kb = 0 /\ ~entries[i].deleted

\* C10: while the program runs, the scan ends: scan_state becomes DONE and
\* the sentinel is put, failed measurements included; the scan of a root
\* without node_modules ends with no entry, and the footer then counts
\* 0 folders, 0 active and shows no scanning indicator.
C10_ScanEnds ==
    /\ <>(~Running \/ (scan_state = "DONE" /\ spc = "finished"))
    /\ [](spc = "finished" /\ paths = <<>> =>
            /\ scan_state = "DONE"
            /\ entries = <<>>
            /\ draw_footer(entries, scan_state).n_total = 0
            /\ draw_footer(entries, scan_state).n_active = 0
            /\ ~draw_footer(entries, scan_state).scanning)

\* C10 witness: a scan with a failed measurement has ended.
C10_Witness ==
    /\ Running /\ scan_state = "DONE" /\ spc = "finished"
    /\ \E e \in AllEntries : e.size_kb = 0 /\ ~e.deleted

\* ---------------------------------------------------------------- C11

\* p lies inside q: q is a proper ancestor of p.
StrictlyInside(p, q) == IsPrefix(q, p) /\ p # q

\* The node_modules directories of a tree that are in no other node_modules
\* directory and whose ancestors could all be listed.
TopTargets(tree, denied) ==
    {Root \o c : c \in {d \in tree :
        /\ d[Len(d)] = "node_modules"
        /\ \A k \in 1..(Len(d) - 1) :
              d[k] # "node_modules" /\ SubSeq(d, 1, k) \notin denied}}

\* C11: the walk does not descend into node_modules.  No path found, and no
\* record emitted, lies inside another one; and when the walk is over, the
\* paths found are exactly the node_modules directories of the tree that are
\* in no other node_modules directory and were reached without a walk error.
C11_NoDescent ==
    /\ \A p, q \in Range(paths) : ~StrictlyInside(p, q)
    /\ \A e1, e2 \in AllEntries : ~StrictlyInside(e1.abs_path, e2.abs_path)
    /\ spc = "submit" => Range(paths) = TopTargets(fs.tree, fs.denied)

\* The walk is over on a tree with a node_modules inside a node_modules and
\* one below a directory that could not be listed.
C11_Witness ==
    /\ spc = "submit"
    /\ <<"a", "node_modules", "x", "node_modules">> \in fs.tree
    /\ <<"b", "c", "node_modules">> \in fs.tree
    /\ fs.denied = {<<"b">>}
    /\ paths = <<Root \o <<"a", "node_modules">>>>

\* ---------------------------------------------------------------- C12

\* The keys handle_input has no movement for; "d" and "x" are bound to
\* nothing.
NonNavigationKeys == {"D", " ", "Q", "q", "Esc", "d", "x"}

UnboundKeys == {"d", "x"}

\* C12: in every state the main loop passes to handle_input (after the
\* clamp of the frame, for any number of records and any height), a key
\* that is no navigation key leaves selected and scroll as they were, and a
\* key bound to nothing raises none of the three flags.
C12_NonNavigationKeepsView ==
    pc = "input" =>
        \A key \in NonNavigationKeys :
            LET r == handle_input(key, selected, scroll, Len(entries), h)
            IN  /\ r.selected = selected
                /\ r.scroll = scroll
                /\ key \in UnboundKeys =>
                      ~r.quit_flag /\ ~r.delete_flag /\ ~r.mark_flag

\* ---------------------------------------------------------------- C13

\* The entries not deleted, in list order.
LiveEntries == SelectSeq(entries, LAMBDA e : ~e.deleted)

\* The targets of the batch that delete_entry is still to be called on.
PendingTargets ==
    CASE pc = "confirm" -> Range(targets)
      [] pc = "deleting" -> {targets[k] : k \in ti..Len(targets)}
      [] OTHER -> {}

\* A deleted entry is in no batch, and the footer is the footer of the list
\* without the deleted entries, but for the count of all entries.
DeletedIsOut ==
    /\ \A i \in PendingTargets : ~entries[i].deleted
    /\ \A state \in {"SCANNING", "DONE"} :
          LET all == draw_footer(entries, state)
              live == draw_footer(LiveEntries, state)
          IN  /\ all.total_str = live.total_str
              /\ all.n_active = live.n_active
              /\ all.n_marked = live.n_marked
              /\ all.n_active = Cardinality({i \in Indexes : ~entries[i].deleted})

\* A step keeps every deleted entry in its place with all its fields.
DeletedIsKept ==
    \A i \in Indexes :
        entries[i].deleted => i <= Len(entries') /\ entries'[i] = entries[i]

\* C13: a deleted record stays deleted and inert: it is in no later target
\* set, the mark key does not change its marked flag, none of its fields
\* changes, it stays in the list, and it adds nothing to the footer's
\* total, active count and marked count.
C13_DeletedIsInert == []DeletedIsOut /\ [][DeletedIsKept]_vars

\* The dialog is open on a batch while the entry under the cursor is a
\* deleted one.
C13_Witness ==
    /\ pc = "confirm"
    /\ PyIndex(selected, Len(entries)) # 0
    /\ entries[PyIndex(selected, Len(entries))].deleted

\* ---------------------------------------------------------------- C14

\* The second loop has dealt with batch position k.
Attempted(k) == pc = "deleting" /\ k < ti

\* While the second loop runs, the batch is a list of distinct entries in
\* list order; those before its position carry the outcome of their
\* removal, those from its position on still wait as "Deleting...".
BatchInOrder ==
    pc = "deleting" =>
        /\ ti \in 1..Len(targets)
        /\ \A k \in 1..Len(targets) : targets[k] \in Indexes
        /\ \A k \in 1..(Len(targets) - 1) : targets[k] < targets[k + 1]
        /\ \A k \in 1..Len(targets) :
              IF Attempted(k)
                THEN entries[targets[k]].status.label \in {"Deleted", "Err: "}
                ELSE entries[targets[k]].status.label = "Deleting..."

\* Outside the second loop no entry waits as "Deleting...".
NoneLeftDeleting ==
    pc # "deleting" => \A i \in Indexes : entries[i].status.label # "Deleting..."

\* A step of the second loop calls delete_entry on the target at its
\* position, whatever became of the earlier ones, changes that entry only
\* and moves to the next position, or leaves the loop after the last.
OneAttemptEach ==
    pc = "deleting" =>
        /\ entries'[targets[ti]].status.label \in {"Deleted", "Err: "}
        /\ \A i \in Indexes \ {targets[ti]} : entries'[i] = entries[i]
        /\ IF ti < Len(targets)
             THEN pc' = "deleting" /\ ti' = ti + 1 /\ targets' = targets
             ELSE pc' # "deleting"

\* C14: in a confirmed batch, removal is attempted for every target once
\* and in list order, whether or not earlier targets failed; after the
\* batch every target is "Deleted" or "Err: ..." and none is left at
\* "Deleting...".
C14_BatchRunsThrough ==
    [](BatchInOrder /\ NoneLeftDeleting) /\ [][OneAttemptEach]_<<pc, entries, ti, targets>>

\* A batch of two whose first target failed, with the second loop at the
\* second target.
C14_Witness ==
    /\ pc = "deleting" /\ Len(targets) = 2 /\ ti = 2
    /\ entries[targets[1]].status.label = "Err: "
    /\ entries[targets[2]].status.label = "Deleting..."

\* ---------------------------------------------------------------- C15

\* The paths of a list of entries, in list order.
PathsOf(es) == [i \in 1..Len(es) |-> es[i].abs_path]

\* The entries are entries of directories the walk found, each at most
\* once; the sentinel is none of them.
ListOfRecords ==
    /\ \A i \in Indexes : entries[i].abs_path \in Range(paths)
    /\ \A i, j \in Indexes : entries[i].abs_path = entries[j].abs_path => i = j
    /\ Len(entries) <= Len(paths)

\* C15: the list of the main loop is append-only and keeps its order: the
\* list before any step is, by abs_path, a prefix of the list after it;
\* no record is removed, moved or repeated, and the sentinel is never
\* appended as a record.
C15_AppendOnly ==
    []ListOfRecords /\ [][IsPrefix(PathsOf(entries), PathsOf(entries'))]_vars

\* The sentinel has been drained, after two records of which the first is
\* deleted and the second marked.
C15_Witness ==
    /\ spc = "finished" /\ result_queue = <<>>
    /\ Len(entries) = 2
    /\ entries[1].deleted /\ entries[2].marked

\* ---------------------------------------------------------------- C16

\* The directory a displayed path names: root for ".", else root joined
\* with it.
Shown(rel_path) == IF rel_path = <<".">> THEN Root ELSE Root \o rel_path

\* C16: every record of a target found names the target in abs_path and
\* the target's parent, relative to root, in rel_path ("." when the parent
\* is root); rel_path never names the node_modules directory itself.
C16_DisplayPathIsParent ==
    \A e \in AllEntries :
        /\ e.abs_path \in Range(paths)
        /\ e.abs_path = Shown(e.rel_path) \o <<"node_modules">>
        /\ e.rel_path # <<>>
        /\ e.rel_path[Len(e.rel_path)] # "node_modules"
        /\ (e.rel_path = <<".">>) = (Len(e.abs_path) = Len(Root) + 1)

\* A record of root's own node_modules and one of a target two levels down.
C16_Witness ==
    /\ \E e \in AllEntries : e.rel_path = <<".">>
    /\ \E e \in AllEntries : e.rel_path = <<"b", "c">>

\* ---------------------------------------------------------------- C17

\* The claimed margin for a window of table_rows rows.
ClaimedMargin(table_rows) == Min(3, table_rows \div 2)

\* The view r keeps the scroll-off margins in a window of table_rows rows.
KeepsMargins(r, table_rows) ==
    LET so == ClaimedMargin(table_rows)
    IN  /\ r.scroll <= r.selected /\ r.selected <= r.scroll + table_rows - 1
        /\ (r.scroll + table_rows - 1) - r.selected >= so
        /\ \/ r.selected - r.scroll >= so
           \/ r.scroll = 0
           \/ table_rows < 2 * so + 1

\* C17: whenever the main loop hands a key to handle_input with at least
\* one record and table_rows = height - 5 >= 1, the selection returned is
\* inside the window returned, with at least so rows of the window below it
\* and at least so rows above it unless scroll = 0 or the window is too
\* short for both margins.
C17_ScrolloffMargins ==
    (pc = "input" /\ h - 5 >= 1 /\ Len(entries) >= 1) =>
        \A key \in Keys :
            KeepsMargins(handle_input(key, selected, scroll, Len(entries), h), h - 5)

\* ---------------------------------------------------------------- C18

\* A step of the main loop on the mark key with a non-empty list.
MarkKeyStep == pc = "input" /\ entries # <<>> /\ KeyStep(" ")

\* What the mark key is claimed to do to the list: flip marked on the
\* record at index selected unless it is deleted, and nothing else.
ClaimedMarked ==
    [entries EXCEPT ![selected + 1] =
        [@ EXCEPT !.marked = IF entries[selected + 1].deleted THEN @ ELSE ~@]]

MarkFlipsAndAdvances ==
    MarkKeyStep =>
        /\ selected \in 0..(Len(entries) - 1)
        /\ pc' = "drain"
        /\ entries' = ClaimedMarked
        /\ selected' = IF selected < Len(entries) - 1 THEN selected + 1 ELSE selected
        /\ h - 5 >= 1 =>
              (scroll' + (h - 5) - 1) - selected' >= ClaimedMargin(h - 5)

\* C18: the mark key on a non-empty list flips marked on the record at the
\* selected index if and only if that record is not deleted, changes no
\* other field of any record, and then moves the selection one row down
\* unless it is on the last record, keeping the bottom margin of the
\* scroll-off rule.
C18_MarkAndAdvance == [][MarkFlipsAndAdvances]_vars

\* ---------------------------------------------------------------- C19

\* The frame on the screen was drawn by a draw_footer that read DONE, so it
\* shows no scanning indicator; entries has not changed since it was drawn
\* but by the second delete loop.
FrameShowsDone == pc \in {"input", "confirm", "deleting"} /\ shown = "DONE"

\* C19: a frame whose footer shows no scanning indicator lists every record
\* the scanner produced: the main loop never draws "done" over a list that
\* is still short of records put before DONE was set.
C19_DoneFrameIsComplete ==
    FrameShowsDone => Len(entries) = Len(paths)

\* ---------------------------------------------------------------- C20

\* C20: every frame drawn with a non-empty list and table_rows = height - 5
\* >= 1 has the selected row inside the window drawn, scroll <= selected <
\* scroll + table_rows; also the first frame after the height changed or
\* the list grew, before any key.
C20_SelectedRowDrawn ==
    (pc = "input" /\ entries # <<>> /\ h - 5 >= 1) =>
        scroll <= selected /\ selected < scroll + (h - 5)

=============================================================================
